---- MODULE Spec2Model ----
(***************************************************************************)
(* State-machine model of crates/repl/src/session.rs (zed 0.166.1): the    *)
(* REPL Session that drives a Jupyter kernel from a text editor.           *)
(*                                                                         *)
(* One action per handler of Session (execute, route, interrupt, shutdown, *)
(* restart, clear_outputs, on_buffer_event, the close control of a block)  *)
(* and one per asynchronous step the handlers spawn (resolution of the     *)
(* shared startup task, a queued execute send, the two steps of a shutdown  *)
(* or restart continuation), plus the environment (document edits, the     *)
(* editor or its workspace going away, the session being dropped).         *)
(***************************************************************************)
EXTENDS Integers, Sequences, FiniteSets, TLC

\* ------------------------------------------------------------------ bounds
MaxExec == 3        \* execute calls with non-empty code
LifecycleExecs == 2 \* the same, in the specification of the kernel lifecycle
MaxStarts == 2      \* start_kernel calls, the one in Session::new included
MaxFragments == 3   \* rows ever present in the document (deleted ones included)
MaxInterrupts == 1  \* interrupt requests sent
MaxOutputs == 1     \* outputs one execution view accumulates

InitRows == 2       \* rows of the document when the session is created
TextLen == 4        \* buffer points of the editor a context menu is asked for

\* ------------------------------------------------------------------ inputs
Codes == {"", "1+1", "2*3"}
OneCode == {"", "1+1"}
DisplayIds == {1, 2}
ExecutionStates == {"idle", "busy"}
BufferEvents == {"Edited", "Saved"}
LaunchError == "launch failed"

VARIABLES
    session,        \* TRUE while the Session view exists (WeakView upgrade succeeds)
    editor,         \* "open" | "no_workspace" | "dropped": the WeakView<Editor>
    kernel,         \* Session.kernel, the Kernel enum, as a record
    tasks,          \* startup tasks (the Shared<Task<()>> of start_kernel), by number
    blocks,         \* Session.blocks: msg_id -> EditorBlock
    requests,       \* the code of every execute request built so far; a request's
                    \* header.msg_id is its position
    calls,          \* history: execute calls made with non-empty code
    issued_in,      \* history: the kernel variant each request was built in
    editor_blocks,  \* custom blocks of the editor: block_id -> msg_id held by on_close
    block_ids,      \* number of CustomBlockIds the editor has handed out
    fragments,      \* the buffer: one entry per row ever inserted, TRUE while visible
    cursor,         \* the editor's selection, as the fragment it is anchored in
    queued,         \* execute requests waiting on a startup task, in spawn order
    conts,          \* spawned shutdown / restart continuations still pending
    sent,           \* every try_send on a kernel's request channel, in order
    interrupts,     \* number of interrupt requests sent (bounds the log)
    undisturbed,    \* history: no block has been asked away yet (an overlapping
                    \* execute, an invalidating edit event, clear_outputs, close,
                    \* shutdown or restart)
    last,           \* the step just taken: which handler, on what, and what it emitted
    menu_editor     \* the Editor that deploy_context_menu works on

vars == <<session, editor, kernel, tasks, blocks, requests, calls, issued_in,
          editor_blocks,
          block_ids,
          fragments, cursor, queued, conts, sent, interrupts, undisturbed, last,
          menu_editor>>

\* --------------------------------------------------------------- the Kernel enum
Variants == {"StartingKernel", "RunningKernel", "ErroredLaunch",
             "Restarting", "ShuttingDown", "Shutdown"}

StartingKernel(t) ==
    [variant |-> "StartingKernel", task |-> t, transport |-> 0,
     execution_state |-> "idle", kernel_info |-> "none", error |-> "none"]

RunningKernel(tr) ==
    [variant |-> "RunningKernel", task |-> 0, transport |-> tr,
     execution_state |-> "idle", kernel_info |-> "none", error |-> "none"]

ErroredLaunch(msg) ==
    [variant |-> "ErroredLaunch", task |-> 0, transport |-> 0,
     execution_state |-> "idle", kernel_info |-> "none", error |-> msg]

Unit(v) ==
    [variant |-> v, task |-> 0, transport |-> 0,
     execution_state |-> "idle", kernel_info |-> "none", error |-> "none"]

Restarting == Unit("Restarting")
ShuttingDown == Unit("ShuttingDown")
Shutdown == Unit("Shutdown")

\* KernelStatus::from(&Kernel).to_string(), the status string of telemetry events
KernelStatusString(k) ==
    CASE k.variant = "RunningKernel" ->
             (IF k.execution_state = "busy" THEN "Busy" ELSE "Idle")
      [] k.variant = "StartingKernel" -> "Starting"
      [] k.variant = "ErroredLaunch" -> "Error"
      [] k.variant = "Restarting" -> "Restarting"
      [] k.variant = "ShuttingDown" -> "ShuttingDown"
      [] OTHER -> "Shutdown"

\* Kernel::set_execution_state: only a running kernel has the field
set_execution_state(k, s) ==
    IF k.variant = "RunningKernel" THEN [k EXCEPT !.execution_state = s] ELSE k

\* Kernel::set_kernel_info: only a running kernel records the reply
set_kernel_info(k, info) ==
    IF k.variant = "RunningKernel" THEN [k EXCEPT !.kernel_info = info] ELSE k

\* ------------------------------------------------------------------ helpers
Restrict(f, S) == [k \in S |-> f[k]]

RemoveAt(s, i) == SubSeq(s, 1, i - 1) \o SubSeq(s, i + 1, Len(s))

NoBlocks == [k \in {} |-> 0]

NoMessage == [kind |-> "None", parent |-> 0, execution_state |-> "idle",
              display_id |-> 0, data |-> 0]

NoRange == [start |-> 0, end |-> 0]

\* the record of a step: what was called, in which kernel variant, and what it emitted
Step(op, result, telemetry, events) ==
    [op |-> op, pre |-> kernel, arg |-> "", id |-> 0, parent |-> 0, result |-> result,
     telemetry |-> telemetry, events |-> events, try_send |-> "none",
     forced |-> "none", evicted |-> {}, range |-> NoRange]

\* the answer of try_send, which every caller discards with .ok()
TrySend(k, ok) ==
    IF k.variant = "RunningKernel" THEN (IF ok THEN "ok" ELSE "failed") ELSE "none"

\* ------------------------------------------------- the document and its anchors
\* An anchor is the fragment it was created in; fragments keep their order when rows
\* are deleted, so anchors stay comparable in every later snapshot.
VisibleFragments(fr) == {f \in DOMAIN fr : fr[f]}

\* Anchor::to_point(..).row: the visible rows that precede the anchor
RowOf(fr, a) == Cardinality({f \in VisibleFragments(fr) : f < a})

\* MultiBufferSnapshot::max_point().row
MaxRow(fr) == Cardinality(VisibleFragments(fr)) - 1

FragmentAtRow(fr, row) == CHOOSE f \in VisibleFragments(fr) : RowOf(fr, f) = row

\* Anchor::is_valid: the text the anchor sits in has not been deleted
is_valid(a, fr) == a \in DOMAIN fr /\ fr[a]

\* AnchorRangeExt::overlaps: end >= other.start and start <= other.end
overlaps(r, other) == r.end >= other.start /\ r.start <= other.end

\* Editor::remove_blocks
remove_blocks(regions, ids) == Restrict(regions, DOMAIN regions \ ids)

\* ------------------------------------------------------------ execution views
\* ExecutionStatus: only KernelErrored carries a text
ExecutionStatus(name) == [name |-> name, error |-> ""]

KernelErrored(e) == [name |-> "KernelErrored", error |-> e]

\* ExecutionView::push_message
push_message(view, m) ==
    CASE m.kind = "Status" ->
             [view EXCEPT !.status =
                 IF m.execution_state = "busy" THEN ExecutionStatus("Executing")
                 ELSE ExecutionStatus("Finished")]
      [] m.kind = "DisplayData" /\ Len(view.outputs) < MaxOutputs ->
             [view EXCEPT !.outputs =
                 Append(@, [display_id |-> m.display_id, data |-> m.data])]
      [] OTHER -> view

\* ExecutionView::update_display_data: outputs showing display_id get the new data
update_display_data(view, data, display_id) ==
    [view EXCEPT !.outputs =
        [i \in DOMAIN @ |->
            IF @[i].display_id = display_id THEN [@[i] EXCEPT !.data = data] ELSE @[i]]]

\* EditorBlock::handle_message
handle_message(block, m) == push_message(block, m)

\* the match at the head of Session::execute that picks the new view's status
ExecutionStatusByCall(k) == ExecutionStatus("Queued")

ExecutionStatusOf(k) ==
    CASE k.variant = "Restarting" -> ExecutionStatus("Restarting")
      [] k.variant = "RunningKernel" -> ExecutionStatus("Queued")
      [] k.variant = "StartingKernel" -> ExecutionStatus("ConnectingToKernel")
      [] k.variant = "ErroredLaunch" -> KernelErrored(k.error)
      [] k.variant = "ShuttingDown" -> ExecutionStatus("ShuttingDown")
      [] OTHER -> ExecutionStatus("Shutdown")

\* an edit that appends the line break whatever follows the code
NeedsNewlineAlways(fr, code_range) == TRUE

\* EditorBlock::new, the part that touches the buffer: a line break is appended when
\* the row after the code does not exist, and the anchor is taken on that row
NeedsNewline(fr, code_range) == RowOf(fr, code_range.end) + 1 > MaxRow(fr)

BufferAfterNew(fr, code_range) ==
    IF NeedsNewline(fr, code_range) THEN Append(fr, TRUE) ELSE fr

InvalidationAnchor(fr, code_range) ==
    FragmentAtRow(BufferAfterNew(fr, code_range), RowOf(fr, code_range.end) + 1)

\* ------------------------------------------------------------ startup tasks
\* A startup task lives while something holds its Shared handle: the kernel field
\* (Kernel::StartingKernel(task)) or a queued execute that cloned it.  Dropping the
\* last handle drops the Task, which cancels it.
Referenced(t, k, q) ==
    \/ k.variant = "StartingKernel" /\ k.task = t
    \/ \E i \in DOMAIN q : q[i].task = t

Reap(ts, k, q) ==
    [t \in DOMAIN ts |->
        IF ts[t] = "pending" /\ ~Referenced(t, k, q) THEN "cancelled" ELSE ts[t]]

AwaitSkipped(ts, t) == TRUE

\* task.await in the queued send: the shared startup task has produced its result
Resolved(ts, t) == ts[t] \in {"ok", "err"}

\* the executor wakes the tasks waiting on one shared future in the order they
\* were spawned: entry i is the oldest entry of its startup task
QueuedInOrder(q, i) == \A j \in 1..(i - 1) : q[j].task # q[i].task

\* ---------------------------------------------------------------- transport
ExecuteRequest(tr, id, code) ==
    [transport |-> tr, kind |-> "ExecuteRequest", msg_id |-> id, code |-> code,
     restart |-> FALSE]

InterruptRequest(tr) ==
    [transport |-> tr, kind |-> "InterruptRequest", msg_id |-> 0, code |-> "",
     restart |-> FALSE]

ShutdownRequest(tr, restart_flag) ==
    [transport |-> tr, kind |-> "ShutdownRequest", msg_id |-> 0, code |-> "",
     restart |-> restart_flag]

\* a send without the test of the handle
send_unguarded(log, k, m) == Append(log, [m EXCEPT !.transport = k.transport])

\* Session::send: try_send on the running kernel's channel, nothing otherwise; the
\* log holds the calls of try_send, whatever the channel answered
send(log, k, m) ==
    IF k.variant = "RunningKernel" THEN Append(log, [m EXCEPT !.transport = k.transport])
    ELSE log

\* ------------------------------------------- the editor of the mouse context menu
\* The buffer of that editor is Text; a buffer point is an offset 0..TextLen.  The
\* display map hides the buffer points of one fold, so display points and buffer
\* points differ behind it.
Text == <<"t", "e", "s", "t">>
NoFold == [start |-> 0, end |-> 0]
Folds == {NoFold, [start |-> 1, end |-> 3]}

\* DisplayPoint::to_point: the buffer point a display point stands for
to_point(fold, point) ==
    IF point <= fold.start THEN point ELSE point + (fold.end - fold.start)

\* Point::to_display_point: where a buffer point is drawn
to_display_point(fold, p) ==
    IF p <= fold.start THEN p
    ELSE IF p < fold.end THEN fold.start
    ELSE p - (fold.end - fold.start)

DisplayPoints(fold) == 0..(TextLen - (fold.end - fold.start))

Selection(start, end) == [start |-> start, end |-> end]

\* a range test that answers yes for every point
RangeContainsAlways(r, point) == TRUE

\* Range::contains: start <= point < end
RangeContains(r, point) == r.start <= point /\ point < r.end

\* display_ranges: the disjoint selections chained with the pending one, each as the
\* range of its display points
display_ranges(ed) ==
    {Selection(to_display_point(ed.fold, s.start), to_display_point(ed.fold, s.end)) :
        s \in ed.disjoint \union ed.pending}

None == [some |-> FALSE]

\* MouseContextMenu::new: the menu pinned to its source, owning the context menu
MouseContextMenu(source, pinned, context_menu) ==
    [some |-> TRUE, source |-> source, pinned |-> pinned, context_menu |-> context_menu]

\* MouseContextMenu::pinned_to_editor: None without last_bounds, None when the source
\* has no pixel point, the menu otherwise
pinned_to_editor(ed, source, context_menu) ==
    IF ~ed.last_bounds THEN None
    ELSE IF ~ed.on_screen THEN None
    ELSE MouseContextMenu(source, "position", context_menu)

\* the selections the editor can hold when the menu is asked for: (disjoint, pending)
SelectionSets ==
    {<<{Selection(0, 0)}, {}>>,
     <<{Selection(1, 3)}, {}>>,
     <<{Selection(0, 1), Selection(3, 4)}, {}>>,
     <<{}, {Selection(2, 2)}>>,
     <<{Selection(0, 0)}, {Selection(2, 4)}>>}

\* the editors deploy_context_menu is called on
MenuEditors ==
    {[mode |-> mode, project |-> project, custom_context_menu |-> custom,
      last_bounds |-> bounds, on_screen |-> on_screen, focus |-> focus,
      text |-> Text, fold |-> fold, disjoint |-> sel[1], pending |-> sel[2],
      mouse_context_menu |-> None] :
        mode \in {"Full", "SingleLine", "AutoHeight"}, project \in BOOLEAN,
        custom \in {"none", "menu", "no_menu"}, bounds \in BOOLEAN,
        on_screen \in BOOLEAN, focus \in {"editor", "elsewhere"}, fold \in Folds,
        sel \in SelectionSets}

\* the editor next to a session, which nobody asks for a menu
IdleEditor ==
    [mode |-> "Full", project |-> TRUE, custom_context_menu |-> "none",
     last_bounds |-> TRUE, on_screen |-> TRUE, focus |-> "editor", text |-> Text,
     fold |-> NoFold, disjoint |-> {Selection(0, 0)}, pending |-> {},
     mouse_context_menu |-> None]

\* ------------------------------------------------------------------ Init
\* Session::new: StartingKernel(Task::ready) and then start_kernel
SessionNew ==
    /\ session = TRUE
    /\ editor = "open"
    /\ kernel = StartingKernel(1)
    /\ tasks = <<"pending">>
    /\ blocks = NoBlocks
    /\ requests = <<>>
    /\ calls = 0
    /\ issued_in = <<>>
    /\ editor_blocks = NoBlocks
    /\ block_ids = 0
    /\ fragments = [f \in 1..InitRows |-> TRUE]
    /\ cursor = 1
    /\ queued = <<>>
    /\ conts = {}
    /\ sent = <<>>
    /\ interrupts = 0
    /\ undisturbed = TRUE
    /\ last = [op |-> "new", pre |-> StartingKernel(0), arg |-> "", id |-> 0,
               parent |-> 0, result |-> "ok", telemetry |-> <<"Starting", "Starting">>, events |-> 0,
               try_send |-> "none", forced |-> "none", evicted |-> {},
               range |-> NoRange]

Init == SessionNew /\ menu_editor = IdleEditor

\* --------------------------------------------------------------- Session
\* a removal from the session that leaves the editor's regions for later
EditorRemoveLater(ids) == editor_blocks

\* self.editor.update(cx, |editor, cx| editor.remove_blocks(ids, ..)).ok()
EditorRemove(ids) ==
    IF editor = "dropped" THEN editor_blocks ELSE remove_blocks(editor_blocks, ids)

\* a retain that keeps nothing
EvictedByExecuteAll(bs, code_range) == DOMAIN bs

\* the retain of Session::execute: the blocks whose code_range overlaps the new range
EvictedByExecute(bs, code_range) ==
    {k \in DOMAIN bs : overlaps(code_range, bs[k].code_range)}

\* a retain that looks at the end of the code instead of the invalidation anchor
InvalidatedByCodeRange(bs, fr) ==
    {k \in DOMAIN bs : ~is_valid(bs[k].code_range.end, fr)}

\* the retain of Session::on_buffer_event: the blocks whose invalidation anchor is gone
InvalidatedBlocks(bs, fr) ==
    {k \in DOMAIN bs : ~is_valid(bs[k].invalidation_anchor, fr)}

BlockIds(bs, keys) == {bs[k].block_id : k \in keys}

\* a collection of ids that is empty whatever the blocks are
BlocksToRemoveNone(bs) == {}

\* blocks_to_remove in Session::clear_outputs: the block_id of every block
BlocksToRemove(bs) == BlockIds(bs, DOMAIN bs)

\* a dispatch that queues whenever the kernel is not running
ExecuteDispatchQueuesAll(k) ==
    CASE k.variant = "RunningKernel" -> "send"
      [] OTHER -> "queue"

\* a dispatch that treats a starting kernel like a running one
ExecuteDispatchWithoutQueue(k) ==
    CASE k.variant \in {"RunningKernel", "StartingKernel"} -> "send"
      [] OTHER -> "drop"

\* what Session::execute does with the request once the block is stored
ExecuteDispatch(k) ==
    CASE k.variant = "RunningKernel" -> "send"
      [] k.variant = "StartingKernel" -> "queue"
      [] OTHER -> "drop"

\* an event for every handle that Session::kernel installs
ShutdownEventsOnAnyHandle(k) == 1

\* Session::kernel: SessionEvent::Shutdown is emitted when the new handle is Shutdown
ShutdownEvents(k) == IF k.variant = "Shutdown" THEN 1 ELSE 0

\* start_kernel reports "Starting" itself and again through Session::kernel
StartTelemetry == <<"Starting", "Starting">>

\* start_kernel calls, made and still to be made by a pending restart continuation
ReservedStarts == Len(tasks) + Cardinality({c \in conts : c.kind = "restart"})

\* a header that carries the same id in every message
ConstantMessageId(reqs) == 1

\* a request id that is not fresh: every request carries the first id
ReusedMessageId(reqs) == IF reqs = <<>> THEN Len(reqs) + 1 ELSE Len(reqs)

\* the header.msg_id of the JupyterMessage built from the ExecuteRequest: a fresh one
NewMessageId(reqs) == Len(reqs) + 1

ExecuteReturnsEarlyForEditorOnly(ed, code) == ed = "dropped"

\* the two early returns of Session::execute: the editor is gone, or the code is empty
ExecuteReturnsEarly(ed, code) == ed = "dropped" \/ code = ""

execute(code, code_range, next_cell, move_down, ok) ==
    /\ session
    /\ calls' = IF code # "" THEN calls + 1 ELSE calls
    /\ IF ExecuteReturnsEarly(editor, code)
       THEN /\ last' = [Step("execute",
                             IF editor = "dropped" THEN "editor_dropped" ELSE "empty",
                             <<>>, 0)
                           EXCEPT !.arg = code,
                                  !.range = IF code # "" THEN code_range ELSE NoRange]
            /\ UNCHANGED <<session, editor, kernel, tasks, blocks, requests, issued_in,
                           editor_blocks, block_ids, fragments, cursor, queued, conts,
                           sent, interrupts, undisturbed>>
       ELSE LET id == NewMessageId(requests)
                evicted == EvictedByExecute(blocks, code_range)
                kept == Restrict(blocks, DOMAIN blocks \ evicted)
                regions == EditorRemove(BlockIds(blocks, evicted))
                block_id == block_ids + 1
                anchor == InvalidationAnchor(fragments, code_range)
                block == [code_range |-> code_range,
                          invalidation_anchor |-> anchor,
                          block_id |-> block_id,
                          status |-> ExecutionStatusOf(kernel),
                          outputs |-> <<>>]
                dispatch == ExecuteDispatch(kernel)
            IN  /\ requests' = Append(requests, code)
                /\ issued_in' = Append(issued_in, kernel.variant)
                /\ undisturbed' = (undisturbed /\ ~\E k \in DOMAIN blocks :
                                        overlaps(code_range, blocks[k].code_range))
                /\ IF editor = "no_workspace"
                   THEN \* EditorBlock::new fails after the overlapping blocks are gone
                        /\ blocks' = kept
                        /\ editor_blocks' = regions
                        /\ last' = [Step("execute", "no_workspace", <<>>, 0)
                                       EXCEPT !.evicted = evicted, !.id = id,
                                              !.arg = code, !.range = code_range]
                        /\ UNCHANGED <<block_ids, fragments, cursor, queued, sent>>
                   ELSE /\ Len(BufferAfterNew(fragments, code_range)) <= MaxFragments
                        /\ fragments' = BufferAfterNew(fragments, code_range)
                        /\ block_ids' = block_id
                        /\ blocks' = kept @@ (id :> block)
                        /\ editor_blocks' = regions @@ (block_id :> id)
                        /\ sent' = IF dispatch = "send"
                                   THEN send(sent, kernel, ExecuteRequest(0, id, code))
                                   ELSE sent
                        /\ queued' = IF dispatch = "queue"
                                     THEN Append(queued, [msg_id |-> id, code |-> code,
                                                          task |-> kernel.task])
                                     ELSE queued
                        /\ cursor' = IF move_down
                                     THEN (IF next_cell # 0 THEN next_cell ELSE anchor)
                                     ELSE cursor
                        /\ last' = [Step("execute", "ok", <<>>, 0)
                                       EXCEPT !.evicted = evicted, !.id = id,
                                              !.arg = code, !.range = code_range,
                                              !.try_send =
                                                  IF dispatch = "send"
                                                  THEN TrySend(kernel, ok) ELSE "none"]
                /\ UNCHANGED <<session, editor, kernel, tasks, conts, interrupts>>
    /\ UNCHANGED menu_editor

\* a handle that keeps the session alive for the task that holds it
this_update_strong(s) == TRUE

\* this.update(&mut cx, ..).ok() in a spawned task: the closure runs only when the
\* session still exists
this_update(s) == s

\* the task spawned by execute in StartingKernel: task.await, then session.send
QueuedSend(i, ok) ==
    /\ i \in DOMAIN queued
    /\ Resolved(tasks, queued[i].task)
    /\ QueuedInOrder(queued, i)
    /\ queued' = RemoveAt(queued, i)
    /\ sent' = IF this_update(session)
               THEN send(sent, kernel,
                         ExecuteRequest(0, queued[i].msg_id, queued[i].code))
               ELSE sent
    /\ last' = [Step("queued_send",
                     IF session THEN tasks[queued[i].task] ELSE "session_dropped",
                     <<>>, 0)
                   EXCEPT !.id = queued[i].msg_id,
                          !.try_send = IF session THEN TrySend(kernel, ok) ELSE "none"]
    /\ UNCHANGED <<session, editor, kernel, tasks, blocks, requests, calls, issued_in,
                   editor_blocks, block_ids, fragments, cursor, conts, interrupts,
                   undisturbed>>
    /\ UNCHANGED menu_editor

\* Session::kernel_errored: every view that has not finished shows the error
ErroredBlocks(bs) ==
    [k \in DOMAIN bs |->
        IF bs[k].status = ExecutionStatus("Finished") THEN bs[k]
        ELSE [bs[k] EXCEPT !.status = KernelErrored(LaunchError)]]

\* a startup task that forgets the transport it was given
ResolvedKernelUnnumbered(t, outcome) ==
    IF outcome = "ok" THEN RunningKernel(0) ELSE ErroredLaunch(LaunchError)

\* the match on the awaited kernel in start_kernel: the handle the task installs
ResolvedKernel(t, outcome) ==
    IF outcome = "ok" THEN RunningKernel(t) ELSE ErroredLaunch(LaunchError)

\* the task spawned by start_kernel: kernel.await, then Session::kernel or kernel_errored
StartupResolve(t, outcome) ==
    /\ t \in DOMAIN tasks
    /\ tasks[t] = "pending"
    /\ IF this_update(session)
       THEN /\ kernel' = ResolvedKernel(t, outcome)
            /\ blocks' = IF outcome = "ok" THEN blocks ELSE ErroredBlocks(blocks)
            /\ last' = [Step("startup_resolve", outcome,
                             <<IF outcome = "ok" THEN "Idle" ELSE "Error">>,
                             ShutdownEvents(ResolvedKernel(t, outcome)))
                           EXCEPT !.id = t]
       ELSE /\ UNCHANGED <<kernel, blocks>>
            /\ last' = Step("startup_resolve", "session_dropped", <<>>, 0)
    /\ tasks' = Reap([tasks EXCEPT ![t] = outcome], kernel', queued)
    /\ UNCHANGED <<session, editor, requests, calls, issued_in, editor_blocks,
                   block_ids, fragments, cursor, queued, conts, sent, interrupts,
                   undisturbed>>
    /\ UNCHANGED menu_editor

\* a shutdown that leaves the handle as it is until the continuation sets Shutdown
ShutdownReplaceLate(k) == k

\* mem::replace(&mut self.kernel, Kernel::ShuttingDown), the first line of shutdown
ShutdownReplace(k) == ShuttingDown

\* Session::shutdown
shutdown ==
    /\ session
    /\ IF kernel.variant = "RunningKernel"
       THEN /\ kernel' = ShutdownReplace(kernel)
            /\ conts' = conts \cup {[kind |-> "shutdown", pc |-> "send",
                                     transport |-> kernel.transport]}
            /\ last' = Step("shutdown", "spawned", <<>>, 0)
       ELSE /\ kernel' = Shutdown
            /\ conts' = conts
            /\ last' = Step("shutdown", "direct", <<"Shutdown">>,
                             ShutdownEvents(Shutdown))
    /\ tasks' = Reap(tasks, kernel', queued)
    /\ undisturbed' = FALSE
    /\ UNCHANGED <<session, editor, blocks, requests, calls, issued_in, editor_blocks,
                   block_ids, fragments, cursor, queued, sent, interrupts>>
    /\ UNCHANGED menu_editor

\* a match without the arm for Kernel::Restarting, which then restarts like any idle state
RestartBranchUnguarded(k) ==
    IF k.variant = "RunningKernel" THEN "spawn" ELSE "direct"

\* the match of Session::restart on the kernel it replaced by Kernel::Restarting
RestartBranch(k) ==
    CASE k.variant = "Restarting" -> "nothing"
      [] k.variant = "RunningKernel" -> "spawn"
      [] OTHER -> "direct"

\* Session::restart
restart ==
    /\ session
    \* calls that lead to a start_kernel are bounded; a call in Restarting leads to none
    /\ kernel.variant # "Restarting" => ReservedStarts < MaxStarts
    /\ CASE RestartBranch(kernel) = "nothing" ->
               /\ kernel' = Restarting
               /\ last' = Step("restart", "already_restarting", <<>>, 0)
               /\ UNCHANGED <<tasks, blocks, editor_blocks, conts>>
         [] RestartBranch(kernel) = "spawn" ->
               /\ kernel' = Restarting
               /\ conts' = conts \cup {[kind |-> "restart", pc |-> "send",
                                        transport |-> kernel.transport]}
               /\ last' = Step("restart", "spawned", <<>>, 0)
               /\ UNCHANGED <<tasks, blocks, editor_blocks>>
         [] OTHER ->
               /\ blocks' = NoBlocks
               /\ editor_blocks' = EditorRemove(BlocksToRemove(blocks))
               /\ kernel' = StartingKernel(Len(tasks) + 1)
               /\ tasks' = Append(Reap(tasks, Restarting, queued), "pending")
               /\ last' = [Step("restart", "direct", StartTelemetry,
                                   ShutdownEvents(StartingKernel(Len(tasks) + 1)))
                              EXCEPT !.evicted = DOMAIN blocks]
               /\ UNCHANGED conts
    /\ undisturbed' = FALSE
    /\ UNCHANGED <<session, editor, requests, calls, issued_in, block_ids, fragments,
                   cursor, queued, sent, interrupts>>
    /\ UNCHANGED menu_editor

\* a continuation that asks for a plain shutdown in both handlers
RestartFlagNever(kind) == FALSE

\* ShutdownRequest { restart: false } in shutdown, { restart: true } in restart
RestartFlag(kind) == kind = "restart"

\* first poll of a shutdown / restart continuation: request_tx.try_send(ShutdownRequest)
ContSend(c, ok) ==
    /\ c \in conts
    /\ c.pc = "send"
    /\ conts' = (conts \ {c}) \cup {[c EXCEPT !.pc = "wait"]}
    /\ sent' = Append(sent, ShutdownRequest(c.transport, RestartFlag(c.kind)))
    /\ last' = [Step("cont_send", c.kind, <<>>, 0)
                   EXCEPT !.try_send = IF ok THEN "ok" ELSE "failed"]
    /\ UNCHANGED <<session, editor, kernel, tasks, blocks, requests, calls, issued_in,
                   editor_blocks, block_ids, fragments, cursor, queued, interrupts,
                   undisturbed>>
    /\ UNCHANGED menu_editor

\* a continuation that ends on a failed forced kill (forced.await? for log_err)
ContinuationProceedsIfKilled(forced) == forced = "ok"

\* forced.await.log_err(): the answer of the forced kill is logged and dropped
ContinuationProceeds(forced) == TRUE

\* the forced kill has answered and the timer has fired: the continuation's this.update
ContFinish(c, forced) ==
    /\ c \in conts
    /\ c.pc = "wait"
    /\ conts' = conts \ {c}
    /\ IF this_update(session) /\ ContinuationProceeds(forced)
       THEN /\ blocks' = NoBlocks
            /\ editor_blocks' = EditorRemove(BlocksToRemove(blocks))
            /\ IF c.kind = "shutdown"
               THEN /\ kernel' = Shutdown
                    /\ tasks' = Reap(tasks, kernel', queued)
                    /\ last' = [Step("shutdown_done", "ok", <<"Shutdown">>,
                                        ShutdownEvents(Shutdown))
                                   EXCEPT !.forced = forced, !.evicted = DOMAIN blocks]
               ELSE /\ kernel' = StartingKernel(Len(tasks) + 1)
                    /\ tasks' = Append(Reap(tasks, Restarting, queued), "pending")
                    /\ last' = [Step("restart_done", "ok", StartTelemetry,
                                        ShutdownEvents(StartingKernel(Len(tasks) + 1)))
                                   EXCEPT !.forced = forced, !.evicted = DOMAIN blocks]
       ELSE /\ last' = [Step(IF c.kind = "shutdown" THEN "shutdown_done"
                             ELSE "restart_done",
                             IF session THEN "abandoned" ELSE "session_dropped",
                             <<>>, 0)
                           EXCEPT !.forced = forced]
            /\ UNCHANGED <<kernel, tasks, blocks, editor_blocks>>
    /\ UNCHANGED <<session, editor, requests, calls, issued_in, block_ids, fragments,
                   cursor, queued, sent, interrupts, undisturbed>>
    /\ UNCHANGED menu_editor

\* a match whose RunningKernel arm is as empty as the others
InterruptBranchEmpty(k) == "nothing"

\* the match of Session::interrupt: only the RunningKernel arm sends
InterruptBranch(k) == IF k.variant = "RunningKernel" THEN "send" ELSE "nothing"

\* Session::interrupt
interrupt(ok) ==
    /\ session
    /\ IF InterruptBranch(kernel) = "send"
       THEN /\ interrupts < MaxInterrupts
            /\ interrupts' = interrupts + 1
            /\ sent' = send(sent, kernel, InterruptRequest(0))
            /\ last' = [Step("interrupt", "sent", <<>>, 0)
                           EXCEPT !.try_send = TrySend(kernel, ok)]
       ELSE /\ last' = Step("interrupt", "nothing", <<>>, 0)
            /\ UNCHANGED <<interrupts, sent>>
    /\ UNCHANGED <<session, editor, kernel, tasks, blocks, requests, calls, issued_in,
                   editor_blocks, block_ids, fragments, cursor, queued, conts,
                   undisturbed>>
    /\ UNCHANGED menu_editor

\* Session::clear_outputs
clear_outputs ==
    /\ session
    /\ blocks' = NoBlocks
    /\ editor_blocks' = EditorRemove(BlocksToRemove(blocks))
    /\ last' = [Step("clear_outputs", "ok", <<>>, 0) EXCEPT !.evicted = DOMAIN blocks]
    /\ undisturbed' = FALSE
    /\ UNCHANGED <<session, editor, kernel, tasks, requests, calls, issued_in,
                   block_ids, fragments, cursor, queued, conts, sent, interrupts>>
    /\ UNCHANGED menu_editor

\* Session::on_buffer_event
on_buffer_event(event) ==
    /\ session
    /\ IF event = "Edited"
       THEN LET gone == InvalidatedBlocks(blocks, fragments)
            IN  /\ blocks' = Restrict(blocks, DOMAIN blocks \ gone)
                /\ editor_blocks' = IF gone # {}
                                    THEN EditorRemove(BlockIds(blocks, gone))
                                    ELSE editor_blocks
                /\ last' = [Step("on_buffer_event", "ok", <<>>, 0)
                               EXCEPT !.arg = event, !.evicted = gone]
       ELSE /\ last' = [Step("on_buffer_event", "ignored", <<>>, 0) EXCEPT !.arg = event]
            /\ UNCHANGED <<blocks, editor_blocks>>
    /\ undisturbed' = (undisturbed /\ ~(event = "Edited" /\ \E k \in DOMAIN blocks :
                            ~is_valid(blocks[k].invalidation_anchor, fragments)))
    /\ UNCHANGED <<session, editor, kernel, tasks, requests, calls, issued_in,
                   block_ids, fragments, cursor, queued, conts, sent, interrupts>>
    /\ UNCHANGED menu_editor

\* a closure that empties the session's collection
ClosedBlocksAll(regions, block_id) == {regions[b] : b \in DOMAIN regions}

\* session.blocks.remove(&parent_message_id): the id the closure captured when the
\* region was built
ClosedBlocks(regions, block_id) == {regions[block_id]}

\* the on_close closure built by Session::execute, run by the block's close button
on_close(block_id) ==
    /\ block_id \in DOMAIN editor_blocks
    /\ blocks' = IF session
                 THEN Restrict(blocks,
                               DOMAIN blocks \ ClosedBlocks(editor_blocks, block_id))
                 ELSE blocks
    /\ editor_blocks' = remove_blocks(editor_blocks, {block_id})
    /\ last' = [Step("on_close", IF session THEN "ok" ELSE "session_dropped", <<>>, 0)
                   EXCEPT !.evicted = IF session
                                      THEN {editor_blocks[block_id]} \cap DOMAIN blocks
                                      ELSE {}]
    /\ undisturbed' = FALSE
    /\ UNCHANGED <<session, editor, kernel, tasks, requests, calls, issued_in,
                   block_ids, fragments, cursor, queued, conts, sent, interrupts>>
    /\ UNCHANGED menu_editor

\* ---------------------------------------------------------------- messages
ParentIds == 0..(MaxExec + 1)   \* 0: no parent header; MaxExec + 1: an id never issued

StatusMessage(p, s) == [NoMessage EXCEPT !.kind = "Status", !.parent = p,
                                         !.execution_state = s]
KernelInfoReply(p) == [NoMessage EXCEPT !.kind = "KernelInfoReply", !.parent = p]
DisplayData(p, d) == [NoMessage EXCEPT !.kind = "DisplayData", !.parent = p,
                                       !.display_id = d, !.data = 1]
UpdateDisplayData(p, d) == [NoMessage EXCEPT !.kind = "UpdateDisplayData", !.parent = p,
                                             !.display_id = d, !.data = 2]

MessagesFrom(parents) ==
    {StatusMessage(p, s) : p \in parents, s \in ExecutionStates}
    \cup {KernelInfoReply(p) : p \in parents}
    \cup {DisplayData(p, d) : p \in parents, d \in {0} \cup DisplayIds}
    \cup {UpdateDisplayData(p, d) : p \in parents, d \in {0} \cup DisplayIds}

\* a Status arm that takes a busy kernel for one that came up after all
RouteKernelRevives(k, m) ==
    CASE m.kind = "Status" ->
             (IF k.variant = "ErroredLaunch" /\ m.execution_state = "busy"
              THEN [RunningKernel(1) EXCEPT !.execution_state = "busy"]
              ELSE set_execution_state(k, m.execution_state))
      [] m.kind = "KernelInfoReply" -> set_kernel_info(k, "python")
      [] OTHER -> k

\* a Status arm that writes the execution state whatever the variant
RouteKernelAnyVariant(k, m) ==
    CASE m.kind = "Status" -> [k EXCEPT !.execution_state = m.execution_state]
      [] m.kind = "KernelInfoReply" -> set_kernel_info(k, "python")
      [] OTHER -> k

\* the match on message.content in Session::route: what happens to the kernel handle
RouteKernel(k, m) ==
    CASE m.kind = "Status" -> set_execution_state(k, m.execution_state)
      [] m.kind = "KernelInfoReply" -> set_kernel_info(k, "python")
      [] OTHER -> k

\* a lookup that only the kinds without a session-level arm reach
HandlingBlockOfOtherKinds(bs, m) ==
    IF m.kind \notin {"Status", "KernelInfoReply", "UpdateDisplayData"}
       /\ m.parent \in DOMAIN bs
    THEN m.parent ELSE 0

\* the block whose handle_message runs at the end of route, 0 when none does: the
\* UpdateDisplayData arm returns, every other kind falls through to the lookup
HandlingBlock(bs, m) ==
    IF m.kind # "UpdateDisplayData" /\ m.parent \in DOMAIN bs THEN m.parent ELSE 0

\* an UpdateDisplayData arm that updates the block stored under the parent id only
RouteBlocksCorrelated(bs, m) ==
    IF m.kind = "UpdateDisplayData"
    THEN IF m.display_id = 0 \/ m.parent \notin DOMAIN bs THEN bs
         ELSE [bs EXCEPT ![m.parent] =
                  update_display_data(bs[m.parent], m.data, m.display_id)]
    ELSE LET b == HandlingBlock(bs, m)
         IN  IF b # 0 THEN [bs EXCEPT ![b] = handle_message(bs[b], m)] ELSE bs

\* a lookup that takes the block out of the collection to handle the message
RouteBlocksTakesOut(bs, m) ==
    IF m.kind = "UpdateDisplayData"
    THEN IF m.display_id = 0 THEN bs
         ELSE [k \in DOMAIN bs |-> update_display_data(bs[k], m.data, m.display_id)]
    ELSE Restrict(bs, DOMAIN bs \ {HandlingBlock(bs, m)})

\* a lookup that hands the message to every block once the parent id is known
RouteBlocksToAll(bs, m) ==
    IF m.kind = "UpdateDisplayData"
    THEN IF m.display_id = 0 THEN bs
         ELSE [k \in DOMAIN bs |-> update_display_data(bs[k], m.data, m.display_id)]
    ELSE IF HandlingBlock(bs, m) # 0
         THEN [k \in DOMAIN bs |-> handle_message(bs[k], m)]
         ELSE bs

\* ... and to the blocks: UpdateDisplayData with a display id goes to every block
RouteBlocks(bs, m) ==
    IF m.kind = "UpdateDisplayData"
    THEN IF m.display_id = 0 THEN bs
         ELSE [k \in DOMAIN bs |-> update_display_data(bs[k], m.data, m.display_id)]
    ELSE LET b == HandlingBlock(bs, m)
         IN  IF b # 0 THEN [bs EXCEPT ![b] = handle_message(bs[b], m)] ELSE bs

HasParentOrNone(m) == TRUE

\* message.parent_header is Some: parent 0 stands for a message without the header
HasParent(m) == m.parent # 0

\* Session::route
route(m) ==
    /\ session
    /\ IF ~HasParent(m)
       THEN /\ last' = [Step("route", "no_parent", <<>>, 0) EXCEPT !.arg = m.kind]
            /\ UNCHANGED <<kernel, blocks>>
       ELSE /\ kernel' = RouteKernel(kernel, m)
            /\ blocks' = RouteBlocks(blocks, m)
            /\ last' = [Step("route", "ok",
                             IF m.kind = "Status"
                             THEN <<KernelStatusString(RouteKernel(kernel, m))>>
                             ELSE <<>>, 0)
                           EXCEPT !.arg = m.kind, !.id = HandlingBlock(blocks, m),
                                  !.parent = m.parent]
    /\ UNCHANGED <<session, editor, tasks, requests, calls, issued_in, editor_blocks,
                   block_ids, fragments, cursor, queued, conts, sent, interrupts,
                   undisturbed>>
    /\ UNCHANGED menu_editor

\* ------------------------------------------------------------- environment
\* the user deletes a row of the document (the buffer keeps at least one row)
DeleteRow(f) ==
    /\ f \in VisibleFragments(fragments)
    /\ Cardinality(VisibleFragments(fragments)) > 1
    /\ fragments' = [fragments EXCEPT ![f] = FALSE]
    /\ last' = Step("delete_row", "ok", <<>>, 0)
    /\ UNCHANGED <<session, editor, kernel, tasks, blocks, requests, calls, issued_in,
                   editor_blocks, block_ids, cursor, queued, conts, sent, interrupts,
                   undisturbed>>
    /\ UNCHANGED menu_editor

\* the editor's workspace goes away (Editor::workspace() returns None)
DropWorkspace ==
    /\ editor = "open"
    /\ editor' = "no_workspace"
    /\ last' = Step("drop_workspace", "ok", <<>>, 0)
    /\ UNCHANGED <<session, kernel, tasks, blocks, requests, calls, issued_in,
                   editor_blocks, block_ids, fragments, cursor, queued, conts, sent,
                   interrupts, undisturbed>>
    /\ UNCHANGED menu_editor

\* the editor view is released: WeakView<Editor>::upgrade fails from now on
DropEditor ==
    /\ editor # "dropped"
    /\ editor' = "dropped"
    /\ editor_blocks' = NoBlocks
    /\ last' = Step("drop_editor", "ok", <<>>, 0)
    /\ UNCHANGED <<session, kernel, tasks, blocks, requests, calls, issued_in,
                   block_ids, fragments, cursor, queued, conts, sent, interrupts,
                   undisturbed>>
    /\ UNCHANGED menu_editor

\* the Session view is released: its kernel field, and with it the handle on the
\* startup task, is dropped; spawned tasks find this.update failing
DropSession ==
    /\ session
    /\ session' = FALSE
    /\ tasks' = Reap(tasks, Shutdown, queued)
    /\ last' = Step("drop_session", "ok", <<>>, 0)
    /\ UNCHANGED <<editor, kernel, blocks, requests, calls, issued_in, editor_blocks,
                   block_ids, fragments, cursor, queued, conts, sent, interrupts,
                   undisturbed>>
    /\ UNCHANGED menu_editor

\* ------------------------------------------------------------ specification
\* the ranges a caller can pass: both ends on rows of the current snapshot
CodeRanges ==
    {r \in [start : VisibleFragments(fragments), end : VisibleFragments(fragments)] :
        r.start <= r.end}

\* the cell after the executed one, when the caller found one
NextCells(r) == {0} \cup {f \in VisibleFragments(fragments) : f > r.end}

Executes(codes, ranges, moves, cap) ==
    \E code \in codes, r \in ranges :
        \E next_cell \in NextCells(r), move_down \in moves, ok \in BOOLEAN :
            /\ code # "" => calls < cap
            /\ execute(code, r, next_cell, move_down, ok)

Routes(messages) == \E m \in messages : route(m)

Continuations ==
    \/ \E i \in DOMAIN queued, ok \in BOOLEAN : QueuedSend(i, ok)
    \/ \E t \in DOMAIN tasks, outcome \in {"ok", "err"} : StartupResolve(t, outcome)
    \/ \E c \in conts, ok \in BOOLEAN : ContSend(c, ok)
    \/ \E c \in conts, forced \in {"ok", "failed"} : ContFinish(c, forced)

\* The kernel lifecycle: every handler and every spawned task, on a document that is
\* not edited; execute always on the first row.
FirstRow == {r \in CodeRanges : r.end = FragmentAtRow(fragments, 0)}

\* status messages that answer a request of another client of the kernel
LifecycleMessages ==
    {StatusMessage(p, s) : p \in {0, MaxExec + 1}, s \in ExecutionStates}

Next ==
    \/ Executes(OneCode, FirstRow, {FALSE}, LifecycleExecs)
    \/ Continuations
    \/ shutdown
    \/ restart
    \/ \E ok \in BOOLEAN : interrupt(ok)
    \/ clear_outputs
    \/ \E event \in BufferEvents : on_buffer_event(event)
    \/ \E b \in DOMAIN editor_blocks : on_close(b)
    \/ Routes(LifecycleMessages)
    \/ DropSession

Spec == Init /\ [][Next]_vars

\* Blocks and the document: executions on every range, edits, the close control and
\* the editor going away, with a kernel that starts (or fails to) and is left alone.
BlockNext ==
    \/ Executes(OneCode, CodeRanges, BOOLEAN, MaxExec)
    \/ \E i \in DOMAIN queued, ok \in BOOLEAN : QueuedSend(i, ok)
    \/ \E t \in DOMAIN tasks, outcome \in {"ok", "err"} : StartupResolve(t, outcome)
    \/ clear_outputs
    \/ \E event \in BufferEvents : on_buffer_event(event)
    \/ \E b \in DOMAIN editor_blocks : on_close(b)
    \/ \E f \in DOMAIN fragments : DeleteRow(f)
    \/ DropWorkspace
    \/ DropEditor

BlockSpec == Init /\ [][BlockNext]_vars

\* Message routing: every kind of message, with and without parent header, for
\* request ids issued, evicted and not issued yet, while the kernel starts and runs.
SingleRows == {r \in CodeRanges : r.start = r.end}

RouteMessages == MessagesFrom(0..LifecycleExecs)

RouteNext ==
    \/ Executes(OneCode, SingleRows, {FALSE}, LifecycleExecs)
    \/ \E t \in DOMAIN tasks, outcome \in {"ok", "err"} : StartupResolve(t, outcome)
    \/ Routes(RouteMessages)

RouteSpec == Init /\ [][RouteNext]_vars

\* Requests that wait for the kernel: two different codes, startup, shutdown and
\* restart with their continuations.
QueueNext ==
    \/ Executes(Codes, FirstRow, {FALSE}, LifecycleExecs)
    \/ Continuations
    \/ shutdown
    \/ restart

QueueSpec == Init /\ [][QueueNext]_vars

\* The close control: blocks on several rows, closed one by one, before and after
\* the session is dropped.
CloseNext ==
    \/ Executes(OneCode, SingleRows, {FALSE}, MaxExec)
    \/ \E i \in DOMAIN queued, ok \in BOOLEAN : QueuedSend(i, ok)
    \/ \E t \in DOMAIN tasks, outcome \in {"ok", "err"} : StartupResolve(t, outcome)
    \/ \E b \in DOMAIN editor_blocks : on_close(b)
    \/ DropSession

CloseSpec == Init /\ [][CloseNext]_vars

Count(log, P(_)) == Cardinality({i \in DOMAIN log : P(log[i])})

\* the spawned tasks are scheduled: the executor polls a continuation that is ready,
\* the grace timer fires and the forced kill answers
ContSends == \E c \in conts, ok \in BOOLEAN : ContSend(c, ok)
ContFinishes == \E c \in conts, forced \in {"ok", "failed"} : ContFinish(c, forced)

\* the handlers that matter to a pending continuation: those that start one, change
\* the kernel handle, add or remove blocks, or drop the session
FairNext ==
    \/ Executes(OneCode, FirstRow, {FALSE}, LifecycleExecs)
    \/ Continuations
    \/ shutdown
    \/ restart
    \/ clear_outputs
    \/ \E b \in DOMAIN editor_blocks : on_close(b)
    \/ DropSession

FairSpec == Init /\ [][FairNext]_vars /\ WF_vars(ContSends) /\ WF_vars(ContFinishes)

\* ---------------------------------------------------------- mouse context menu
SessionVars == <<session, editor, kernel, tasks, blocks, requests, calls, issued_in,
                 editor_blocks, block_ids, fragments, cursor, queued, conts, sent,
                 interrupts, undisturbed>>

\* editor.selections.all(cx).into_iter().any(|s| !s.is_empty())
has_selections(ed) == \E s \in ed.disjoint \union ed.pending : s.start # s.end

\* change_selections: clear_disjoint, then set_pending_anchor_range(anchor..anchor)
\* when no display range of a selection contains the point
MovedSelections(ed, point) ==
    IF \E r \in display_ranges(ed) : RangeContains(r, point)
    THEN ed
    ELSE [ed EXCEPT !.disjoint = {},
                    !.pending = {Selection(to_point(ed.fold, point),
                                           to_point(ed.fold, point))}]

\* deploy_context_menu(editor, position, point, cx)
deploy_context_menu(position, point) ==
    /\ point \in DisplayPoints(menu_editor.fold)
    /\ LET focused == [menu_editor EXCEPT !.focus = "editor"]
           source_anchor == to_point(focused.fold, point)
           outcome ==
               IF focused.mode # "Full" THEN "not_full"
               ELSE IF focused.custom_context_menu = "no_menu" THEN "no_custom_menu"
               ELSE IF focused.custom_context_menu = "menu" THEN "custom"
               ELSE IF ~focused.project THEN "no_project"
               ELSE "built"
           selected == IF outcome = "built" THEN MovedSelections(focused, point)
                       ELSE focused
           context_menu == [custom |-> outcome = "custom",
                            format_selections |-> outcome = "built"
                                                  /\ has_selections(selected)]
           menu == IF position = "Some"
                   THEN pinned_to_editor(selected, source_anchor, context_menu)
                   ELSE MouseContextMenu(source_anchor, "character_size", context_menu)
       IN  /\ menu_editor' =
                 IF outcome \in {"custom", "built"}
                 THEN [selected EXCEPT !.mouse_context_menu = menu,
                                       !.focus = IF menu.some THEN "menu" ELSE @]
                 ELSE focused
           /\ last' = [Step("deploy_context_menu", outcome, <<>>, 0)
                          EXCEPT !.arg = position, !.id = point]
    /\ UNCHANGED SessionVars

\* the DismissEvent subscription of MouseContextMenu::new
dismiss ==
    /\ menu_editor.mouse_context_menu.some
    /\ menu_editor' = [menu_editor EXCEPT
                          !.mouse_context_menu = None,
                          !.focus = IF @ = "menu" THEN "editor" ELSE @]
    /\ last' = Step("dismiss", "ok", <<>>, 0)
    /\ UNCHANGED SessionVars

MenuInit == SessionNew /\ menu_editor \in MenuEditors

MenuNext ==
    \/ \E position \in {"Some", "None"}, point \in 0..TextLen :
           deploy_context_menu(position, point)
    \/ dismiss

MenuSpec == MenuInit /\ [][MenuNext]_vars

\* ------------------------------------------------------------------- claims

\* C1: after shutdown() on a running kernel the handle is ShuttingDown at once, before
\* any spawned continuation, timer or forced-kill answer has been processed.
C1_ShutdownIsSynchronous ==
    (last.op = "shutdown" /\ last.pre.variant = "RunningKernel")
        => /\ kernel = ShuttingDown
           /\ \E c \in conts : c.kind = "shutdown" /\ c.pc = "send"
                               /\ c.transport = last.pre.transport

C1_Witness ==
    /\ last.op = "shutdown"
    /\ last.pre.variant = "RunningKernel"
    /\ kernel.variant = "ShuttingDown"
    /\ DOMAIN blocks # {}

\* C2: after shutdown() on a running kernel, unless the session is dropped, the handle
\* eventually is Shutdown with no block left, whatever the forced kill answers.
C2_ShutdownCompletes ==
    (last.op = "shutdown" /\ last.pre.variant = "RunningKernel")
        ~> (~session \/ (kernel = Shutdown /\ DOMAIN blocks = {}))

C2_Witness ==
    /\ last.op = "shutdown_done"
    /\ last.result = "ok"
    /\ last.forced = "failed"
    /\ last.evicted # {}
    /\ kernel = Shutdown
    /\ DOMAIN blocks = {}

\* C3: restart() while Restarting changes nothing: handle, blocks, visual regions,
\* requests sent, startup tasks and pending continuations stay as they are; and no
\* transport ever gets a second restart-flagged shutdown request.
RestartRequests(tr) ==
    Count(sent, LAMBDA m : m.kind = "ShutdownRequest" /\ m.restart /\ m.transport = tr)
    + Cardinality({c \in conts : c.kind = "restart" /\ c.pc = "send"
                                 /\ c.transport = tr})

C3_RestartWhileRestartingIsNoOp ==
    /\ [](\A tr \in DOMAIN tasks : RestartRequests(tr) <= 1)
    /\ [][(last'.op = "restart" /\ kernel.variant = "Restarting")
            => UNCHANGED <<kernel, blocks, editor_blocks, sent, tasks, conts, queued,
                           fragments, cursor>>]_vars

C3_Witness ==
    /\ last.op = "restart"
    /\ last.pre.variant = "Restarting"
    /\ kernel = Restarting
    /\ \E c \in conts : c.kind = "restart"
    /\ DOMAIN blocks # {}

\* how often try_send was called with the execute request of one msg_id
ExecuteRequests(id) ==
    Count(sent, LAMBDA m : m.kind = "ExecuteRequest" /\ m.msg_id = id)

\* the first half of C4: right after execute in StartingKernel the block shows
\* ConnectingToKernel, the request waits on the startup task, nothing was sent
C4_Queued ==
    (last.op = "execute" /\ last.result = "ok" /\ last.pre.variant = "StartingKernel")
        => /\ last.id \in DOMAIN blocks
           /\ blocks[last.id].status = ExecutionStatus("ConnectingToKernel")
           /\ ExecuteRequests(last.id) = 0
           /\ \E i \in DOMAIN queued :
                 queued[i] = [msg_id |-> last.id, code |-> requests[last.id],
                              task |-> last.pre.task]

C5_OneBlockPerCall ==
    undisturbed => Cardinality(DOMAIN blocks) = calls

\* C5, amended: under the same condition there are as many blocks as execute calls
\* with non-empty code that were not aborted for a missing editor or workspace, each
\* under a request id and a block id of its own; while the editor and its workspace
\* are there, that is every call with non-empty code.
C5_OneBlockPerCompletedCall ==
    undisturbed
        => /\ Cardinality(DOMAIN blocks) = block_ids
           /\ DOMAIN blocks \subseteq 1..Len(requests)
           /\ {blocks[k].block_id : k \in DOMAIN blocks} = 1..block_ids
           /\ block_ids <= calls
           /\ editor = "open" => block_ids = calls

C5_Witness ==
    /\ undisturbed /\ last.op = "execute" /\ last.result = "ok"
    /\ calls = 2 /\ Cardinality(DOMAIN blocks) = 2
    /\ \A j \in DOMAIN blocks, k \in DOMAIN blocks :
          j # k => ~overlaps(blocks[j].code_range, blocks[k].code_range)

\* what C6 says of one call on range r: the blocks overlapping r are gone with their
\* regions, the others are as they were, and one new block on r is there
EvictsAndInserts(r) ==
    LET over == {k \in DOMAIN blocks : overlaps(r, blocks[k].code_range)}
        new == DOMAIN blocks' \ DOMAIN blocks
    IN  /\ DOMAIN blocks \cap DOMAIN blocks' = DOMAIN blocks \ over
        /\ \A k \in DOMAIN blocks \ over : blocks'[k] = blocks[k]
        /\ Cardinality(new) = 1
        /\ \A k \in new : /\ blocks'[k].code_range = r
                           /\ blocks'[k].block_id \notin DOMAIN editor_blocks
                           /\ DOMAIN editor_blocks' =
                                  (DOMAIN editor_blocks \ BlockIds(blocks, over))
                                      \cup {blocks'[k].block_id}

\* C6 as stated: every execute call with non-empty code on a range r removes exactly
\* the blocks whose code_range overlaps r, with their regions, leaves the other
\* blocks untouched, and the new block is present after the call.
C6_EvictsExactlyOverlapping ==
    [][(last'.op = "execute" /\ last'.arg # "") => EvictsAndInserts(last'.range)]_vars

\* C6, amended: that holds of a call that finds the editor and its workspace; a call
\* that finds the editor without workspace removes the overlapping blocks and their
\* regions and inserts nothing; a call that does not find the editor changes nothing.
C6_EvictsExactlyOverlappingIfEditor ==
    [][(last'.op = "execute" /\ last'.arg # "")
          => LET r == last'.range
                 over == {k \in DOMAIN blocks : overlaps(r, blocks[k].code_range)}
             IN  CASE editor = "open" -> EvictsAndInserts(r)
                   [] editor = "no_workspace" ->
                          /\ blocks' = Restrict(blocks, DOMAIN blocks \ over)
                          /\ editor_blocks' =
                                 Restrict(editor_blocks, DOMAIN editor_blocks
                                              \ BlockIds(blocks, over))
                   [] OTHER -> UNCHANGED <<blocks, editor_blocks>>]_vars

C6_Witness ==
    /\ last.op = "execute" /\ last.result = "ok"
    /\ last.evicted # {} /\ last.evicted \cap DOMAIN blocks = {}
    /\ Cardinality(DOMAIN blocks) = 2
    /\ \E k \in DOMAIN blocks : k < last.id

\* C7: an Edited event removes exactly the blocks whose invalidation anchor is not
\* valid in the snapshot, with their regions, and keeps every other block as it is;
\* any other buffer event leaves the blocks and the editor's regions unchanged.
C7_EditedRemovesInvalidated ==
    [][last'.op = "on_buffer_event"
          => IF last'.arg = "Edited"
             THEN LET gone == {k \in DOMAIN blocks :
                                  ~is_valid(blocks[k].invalidation_anchor, fragments)}
                  IN  /\ blocks' = Restrict(blocks, DOMAIN blocks \ gone)
                      /\ editor_blocks' =
                             Restrict(editor_blocks, DOMAIN editor_blocks
                                          \ BlockIds(blocks, gone))
             ELSE UNCHANGED <<blocks, editor_blocks, fragments, cursor>>]_vars

C7_Witness ==
    /\ last.op = "on_buffer_event" /\ last.arg = "Edited"
    /\ last.evicted # {} /\ last.evicted \cap DOMAIN blocks = {}
    /\ DOMAIN blocks # {}
    /\ \A k \in DOMAIN blocks : is_valid(blocks[k].invalidation_anchor, fragments)
    /\ DOMAIN editor_blocks = BlockIds(blocks, DOMAIN blocks)

\* C8: routing a Status message leaves the kernel handle in its variant; a running
\* kernel changes in its execution state at most, and a handle in any other variant
\* (Shutdown among them) is exactly what it was.
C8_StatusKeepsVariant ==
    (last.op = "route" /\ last.arg = "Status")
        => /\ kernel.variant = last.pre.variant
           /\ IF last.pre.variant = "RunningKernel"
              THEN kernel = [last.pre EXCEPT !.execution_state = kernel.execution_state]
              ELSE kernel = last.pre

C8_Witness ==
    /\ last.op = "route" /\ last.arg = "Status" /\ last.result = "ok"
    /\ last.pre.variant = "RunningKernel" /\ kernel.variant = "RunningKernel"
    /\ last.pre.execution_state = "idle" /\ kernel.execution_state = "busy"
    /\ last.telemetry = <<"Busy">>

\* the outputs of a view after an update for display id d carrying data
OutputsUpdated(outputs, d, data) ==
    [i \in DOMAIN outputs |->
        IF outputs[i].display_id = d THEN [outputs[i] EXCEPT !.data = data]
        ELSE outputs[i]]

\* C9: an UpdateDisplayData message with a parent header and a display id reaches
\* every block: in each block the outputs showing that display id get the new data
\* and nothing else changes, whichever request the message answers; no block is
\* added or removed and no block's handle_message runs on the message.
C9_UpdateDisplayDataIsBroadcast ==
    [][(last'.op = "route" /\ last'.arg = "UpdateDisplayData" /\ last'.result = "ok")
          => /\ last'.id = 0
             /\ DOMAIN blocks' = DOMAIN blocks
             /\ \A p \in ParentIds \ {0}, d \in DisplayIds :
                   route(UpdateDisplayData(p, d))
                       => \A k \in DOMAIN blocks :
                             blocks'[k] =
                                 [blocks[k] EXCEPT
                                     !.outputs = OutputsUpdated(@, d, 2)]]_vars

C9_Witness ==
    /\ last.op = "route" /\ last.arg = "UpdateDisplayData" /\ last.result = "ok"
    /\ \E j \in DOMAIN blocks, k \in DOMAIN blocks :
          /\ j # k
          /\ blocks[j].outputs = <<[display_id |-> 1, data |-> 2]>>
          /\ blocks[k].outputs = <<[display_id |-> 1, data |-> 2]>>

\* C10: once the kernel handle is Shutdown, every step other than a call of
\* restart() leaves it Shutdown, without transport.
C10_ShutdownIsTerminal ==
    [][(kernel.variant = "Shutdown" /\ last'.op # "restart") => kernel' = Shutdown]_vars

\* C11: whenever a call of shutdown() has brought the handle to Shutdown, directly or
\* through its continuation, the session has no block and the editor shows no region
\* of the session.
C11_ShutdownClearsBlocks ==
    (last.op \in {"shutdown", "shutdown_done"} /\ last.pre.variant # "Shutdown"
        /\ kernel = Shutdown)
        => DOMAIN blocks = {} /\ DOMAIN editor_blocks = {}

\* C12: every start_kernel (in Session::new, in restart(), in the continuation of a
\* restart) leaves the handle in StartingKernel on a fresh, pending startup task; and
\* when a startup task resolves, the handle is RunningKernel with the transport of
\* that task if it succeeded and ErroredLaunch with the error text if it failed.
C12_StartKernelLifecycle ==
    /\ [](last.telemetry = StartTelemetry
            => /\ kernel = StartingKernel(Len(tasks))
               /\ tasks[Len(tasks)] = "pending")
    /\ [](last.op = "new" => kernel = StartingKernel(1))
    /\ [][(last'.op = "startup_resolve" /\ last'.result \in {"ok", "err"})
            => /\ tasks[last'.id] = "pending"
               /\ tasks'[last'.id] = last'.result
               /\ kernel' = IF last'.result = "ok"
                            THEN RunningKernel(last'.id)
                            ELSE ErroredLaunch(LaunchError)]_vars

C12_Witness ==
    /\ last.op = "startup_resolve" /\ last.result = "err" /\ last.id = 2
    /\ last.pre = StartingKernel(2)
    /\ kernel.variant = "ErroredLaunch" /\ kernel.error = LaunchError

RestartedFrom(tr) ==
    last.op = "restart" /\ last.pre.variant = "RunningKernel" /\ last.pre.transport = tr

\* C13: restart() on a running kernel leaves the handle Restarting at once; the
\* restart-flagged shutdown request then goes to the old transport; and, unless the
\* session is dropped, start_kernel is entered again with no block left, whatever
\* the forced kill answers.
C13_RestartReenters ==
    /\ [](\A tr \in 1..MaxStarts :
            RestartedFrom(tr)
                => /\ kernel = Restarting
                   /\ [kind |-> "restart", pc |-> "send", transport |-> tr] \in conts)
    /\ \A tr \in 1..MaxStarts :
          RestartedFrom(tr)
              ~> /\ \E i \in DOMAIN sent : sent[i] = ShutdownRequest(tr, TRUE)
                 /\ \/ ~session
                    \/ /\ last.op = "restart_done" /\ last.result = "ok"
                       /\ last.telemetry = StartTelemetry
                       /\ kernel = StartingKernel(Len(tasks))
                       /\ DOMAIN blocks = {} /\ DOMAIN editor_blocks = {}

C13_Witness ==
    /\ last.op = "restart_done" /\ last.result = "ok" /\ last.forced = "failed"
    /\ last.evicted # {}
    /\ kernel = StartingKernel(Len(tasks)) /\ DOMAIN blocks = {}
    /\ \E i \in DOMAIN sent : sent[i] = ShutdownRequest(1, TRUE)

\* the variants in which execute neither sends nor queues
Dropping == {"ErroredLaunch", "Restarting", "ShuttingDown", "Shutdown"}

C15_QueuedSentInOrderAfterStartup ==
    [][last'.op = "queued_send"
          => \E i \in DOMAIN queued :
                /\ queued[i].msg_id = last'.id
                /\ i \notin DOMAIN queued' \/ queued'[i].msg_id # last'.id
                /\ tasks[queued[i].task] \in {"ok", "err"}
                /\ \A j \in DOMAIN queued :
                      queued[j].task = queued[i].task
                          => queued[j].msg_id >= last'.id]_vars

C15_Witness ==
    /\ Len(sent) >= 2 /\ Len(requests) >= 2
    /\ sent[1] = ExecuteRequest(1, 1, requests[1])
    /\ sent[2] = ExecuteRequest(1, 2, requests[2])
    /\ last.op = "queued_send" /\ last.id = 2 /\ last.try_send = "ok"
    /\ queued = <<>>

\* C16: the status a block starts with is decided by the variant the kernel handle
\* had when execute was called: RunningKernel gives Queued, StartingKernel gives
\* ConnectingToKernel, ErroredLaunch(e) gives KernelErrored(e), and Restarting,
\* ShuttingDown and Shutdown give the status of the same name
InitialStatus(k) ==
    IF k.variant = "RunningKernel" THEN ExecutionStatus("Queued")
    ELSE IF k.variant = "StartingKernel" THEN ExecutionStatus("ConnectingToKernel")
    ELSE IF k.variant = "ErroredLaunch" THEN KernelErrored(k.error)
    ELSE ExecutionStatus(k.variant)

C16_InitialStatusFollowsVariant ==
    (last.op = "execute" /\ last.result = "ok")
        => /\ last.id \in DOMAIN blocks
           /\ blocks[last.id].status = InitialStatus(last.pre)

C16_Witness ==
    /\ last.op = "execute" /\ last.result = "ok" /\ last.id \in DOMAIN blocks
    /\ last.pre = ErroredLaunch(LaunchError)
    /\ blocks[last.id].status = KernelErrored(LaunchError)

\* C17: execute with empty code changes nothing, whatever the kernel handle is: no
\* block is added or evicted (overlapping ones included), nothing is sent or
\* queued, the document and the cursor stay as they are, the handle is unchanged
C17_EmptyCodeIsNoOp ==
    [][(last'.op = "execute" /\ last'.arg = "")
          => UNCHANGED <<session, editor, kernel, tasks, blocks, requests, editor_blocks,
                         block_ids, fragments, cursor, queued, conts, sent,
                         interrupts>>]_vars

C17_Witness ==
    /\ last.op = "execute" /\ last.arg = "" /\ last.result = "empty"
    /\ kernel.variant = "ShuttingDown"
    /\ \E b \in DOMAIN blocks, r \in FirstRow : overlaps(blocks[b].code_range, r)

\* C18: route drops a message that has no parent header, whatever its kind: the
\* kernel handle with its execution state and every block stay as they are
C18_NoParentIsDropped ==
    [][(last'.op = "route" /\ last'.parent = 0)
          => UNCHANGED <<session, editor, kernel, tasks, blocks, requests, editor_blocks,
                         block_ids, fragments, cursor, queued, conts, sent,
                         interrupts>>]_vars

C18_Witness ==
    /\ last.op = "route" /\ last.parent = 0 /\ last.arg = "Status"
    /\ last.result = "no_parent"
    /\ kernel.variant = "RunningKernel" /\ kernel.execution_state = "idle"
    /\ DOMAIN blocks # {}

SessionGlobalKinds == {"Status", "KernelInfoReply", "UpdateDisplayData"}

\* C19 as stated: after the session-level handling of a Status, KernelInfoReply or
\* UpdateDisplayData message routing stops, the block stored under the correlation
\* id does not get the message, and Status and KernelInfoReply leave every block
\* unchanged
C19_GlobalKindsStopRouting ==
    [][(last'.op = "route" /\ last'.arg \in SessionGlobalKinds)
          => /\ last'.id = 0
             /\ last'.arg # "UpdateDisplayData" => blocks' = blocks]_vars

\* C19, amended: routing stops only for UpdateDisplayData; a Status or
\* KernelInfoReply message is also handed to the block stored under its
\* correlation id, when there is one, and every other block is left unchanged
C19_OnlyUpdateDisplayDataStopsRouting ==
    [][(last'.op = "route" /\ last'.arg \in SessionGlobalKinds)
          => IF last'.arg = "UpdateDisplayData"
             THEN last'.id = 0
             ELSE /\ last'.id = IF last'.parent \in DOMAIN blocks
                                THEN last'.parent ELSE 0
                  /\ DOMAIN blocks' = DOMAIN blocks
                  /\ \A b \in DOMAIN blocks \ {last'.parent} :
                        blocks'[b] = blocks[b]]_vars

C19_Witness ==
    /\ last.op = "route" /\ last.arg = "Status"
    /\ last.id # 0 /\ last.id = last.parent /\ last.id \in DOMAIN blocks
    /\ Cardinality(DOMAIN blocks) = 2

\* C20: a message of a kind that is not session-global, with correlation id X, is
\* handled by the block stored under X and changes no other block; when no block
\* is stored under X it is dropped: no block changes; the kernel handle is
\* unchanged in both cases
C20_DeliveredToCorrelatedBlockOnly ==
    [][(last'.op = "route" /\ last'.arg \notin SessionGlobalKinds /\ last'.parent # 0)
          => /\ kernel' = kernel
             /\ DOMAIN blocks' = DOMAIN blocks
             /\ \A b \in DOMAIN blocks \ {last'.parent} : blocks'[b] = blocks[b]
             /\ IF last'.parent \in DOMAIN blocks
                THEN last'.id = last'.parent
                ELSE last'.id = 0 /\ blocks' = blocks]_vars

C20_Witness ==
    /\ last.op = "route" /\ last.arg = "DisplayData"
    /\ last.id = last.parent /\ last.id \in DOMAIN blocks
    /\ blocks[last.id].outputs # <<>>
    /\ \E b \in DOMAIN blocks \ {last.id} : blocks[b].outputs = <<>>

\* the other case of C20: the block of an issued request is gone when its message
\* arrives
C20_DroppedAfterEviction ==
    /\ last.op = "route" /\ last.arg = "DisplayData"
    /\ last.parent \in DOMAIN requests /\ last.parent \notin DOMAIN blocks
    /\ last.id = 0 /\ DOMAIN blocks # {}

\* C21: every step that changes the variant of the kernel handle emits, in the
\* same step, a telemetry event with the status string of the new handle
C21_VariantChangeEmitsTelemetry ==
    [][kernel'.variant # kernel.variant
          => /\ last'.telemetry # <<>>
             /\ last'.telemetry[Len(last'.telemetry)] = KernelStatusString(kernel')]_vars

\* C22: the session-shutdown event is emitted whenever the kernel handle is set to
\* Shutdown (also when it was Shutdown before), and in no step that sets the
\* handle to another variant or leaves it alone
C22_ShutdownEventIffShutdown ==
    [][/\ last'.events > 0 => kernel' = Shutdown
       /\ (kernel' = Shutdown /\ kernel # Shutdown) => last'.events = 1
       /\ (last'.op = "shutdown" /\ kernel = Shutdown) => last'.events = 1
       /\ kernel'.variant # "Shutdown" => last'.events = 0]_vars

C22_Witness ==
    /\ last.op = "shutdown_done" /\ last.pre = ShuttingDown
    /\ kernel = Shutdown /\ last.events = 1

\* C23: interrupt() passes exactly one interrupt request to the transport when
\* the kernel handle is RunningKernel and nothing in every other state; in
\* StartingKernel the queued executions stay queued; the kernel handle and the
\* blocks are unchanged in every state
C23_InterruptSendsOnlyWhenRunning ==
    [][last'.op = "interrupt"
          => /\ kernel' = kernel /\ blocks' = blocks /\ editor_blocks' = editor_blocks
             /\ queued' = queued /\ tasks' = tasks /\ conts' = conts
             /\ sent' = IF kernel.variant = "RunningKernel"
                        THEN Append(sent, InterruptRequest(kernel.transport))
                        ELSE sent]_vars

C23_Witness ==
    /\ last.op = "interrupt" /\ last.pre.variant = "RunningKernel"
    /\ sent # <<>> /\ sent[Len(sent)].kind = "InterruptRequest"
    /\ Count(sent, LAMBDA m : m.kind = "InterruptRequest") = 1
    /\ kernel = last.pre /\ DOMAIN blocks # {}

\* the StartingKernel case of C23: interrupt() with an execution queued
C23_InterruptWhileQueued ==
    /\ last.op = "interrupt" /\ last.pre.variant = "StartingKernel"
    /\ queued # <<>> /\ sent = <<>>

\* C24: clear_outputs removes every block from the session and, from the editor
\* when there is one, the region of every block; in any kernel state it leaves
\* the kernel handle unchanged and sends and queues nothing
C24_ClearOutputsRemovesAll ==
    [][last'.op = "clear_outputs"
          => /\ DOMAIN blocks' = {}
             /\ editor # "dropped"
                   => editor_blocks' =
                          Restrict(editor_blocks,
                                   DOMAIN editor_blocks
                                       \ {blocks[b].block_id : b \in DOMAIN blocks})
             /\ kernel' = kernel /\ tasks' = tasks
             /\ sent' = sent /\ queued' = queued /\ conts' = conts]_vars

C24_Witness ==
    /\ last.op = "clear_outputs" /\ last.evicted # {}
    /\ last.pre.variant = "Restarting" /\ kernel = Restarting
    /\ DOMAIN blocks = {} /\ DOMAIN editor_blocks = {}

ContinuationSteps ==
    {"queued_send", "startup_resolve", "cont_send", "shutdown_done", "restart_done"}

\* C25: once the session is torn down, a pending continuation (a queued send, the
\* startup completion, the shutdown or the restart timer) that runs does nothing:
\* no execute request is sent, the kernel handle is not set, no kernel is started,
\* no block changes and no event is reported
C25_ContinuationsAfterTeardownDoNothing ==
    [][(~session /\ last'.op \in ContinuationSteps)
          => /\ kernel' = kernel
             /\ Len(tasks') = Len(tasks)
             /\ blocks' = blocks /\ editor_blocks' = editor_blocks
             /\ Count(sent', LAMBDA m : m.kind = "ExecuteRequest")
                   = Count(sent, LAMBDA m : m.kind = "ExecuteRequest")
             /\ last'.telemetry = <<>> /\ last'.events = 0
             /\ last'.result \in {"session_dropped", "shutdown", "restart"}]_vars

C25_Witness ==
    /\ ~session /\ last.op = "restart_done" /\ last.result = "session_dropped"
    /\ kernel = Restarting /\ queued # <<>>

\* C26: an execute that cannot proceed because the editor view is gone or because
\* the editor has no workspace has no effect on the session: no block is added or
\* removed, nothing is sent or queued, the kernel handle is unchanged
C26_AbortedExecuteHasNoEffect ==
    [][(last'.op = "execute" /\ last'.result \in {"editor_dropped", "no_workspace"})
          => /\ blocks' = blocks /\ editor_blocks' = editor_blocks
             /\ sent' = sent /\ queued' = queued
             /\ kernel' = kernel /\ tasks' = tasks]_vars

CallsThatKeepErroredLaunch ==
    {"execute", "interrupt", "route", "on_buffer_event", "queued_send", "clear_outputs",
     "on_close"}

\* C27: a launch failure is not retried: while the kernel handle is ErroredLaunch,
\* execute, interrupt, inbound messages and edits (and sends that were queued,
\* clear_outputs and the close control) start no kernel and leave the handle as
\* it is; only restart() and shutdown() are meant to change it
C27_ErroredLaunchIsNotRetried ==
    [][(kernel.variant = "ErroredLaunch" /\ last'.op \in CallsThatKeepErroredLaunch)
          => /\ kernel' = kernel
             /\ tasks' = tasks
             /\ conts' = conts
             /\ sent' = sent
             /\ last'.telemetry \in {<<>>, <<"Error">>}]_vars

C27_Witness ==
    /\ last.op = "route" /\ last.arg = "Status" /\ last.result = "ok"
    /\ last.pre = ErroredLaunch(LaunchError) /\ kernel = ErroredLaunch(LaunchError)
    /\ last.telemetry = <<"Error">>
    /\ requests # <<>> /\ interrupts = 0

\* C28: while the session and the editor view exist, the regions registered in
\* the editor are exactly the block_ids of the session's blocks: one region per
\* block, no region without a block, no block without a region; so every
\* eviction (edit, overlap on execute, clear_outputs, close control) removes the
\* block and its region in one step
C28_RegionsMatchBlocks ==
    (session /\ editor # "dropped")
        => /\ DOMAIN editor_blocks = {blocks[b].block_id : b \in DOMAIN blocks}
           /\ \A b \in DOMAIN blocks : editor_blocks[blocks[b].block_id] = b
           /\ \A a, b \in DOMAIN blocks :
                 blocks[a].block_id = blocks[b].block_id => a = b

C28_Witness ==
    /\ session /\ editor = "open"
    /\ last.op = "on_buffer_event" /\ last.evicted # {}
    /\ DOMAIN blocks # {}
    /\ DOMAIN editor_blocks = {blocks[b].block_id : b \in DOMAIN blocks}

\* C29: the close control of a block removes the block stored under the
\* correlation id of the execution that built it, and its region in the editor;
\* every other block, every other region and the kernel handle are unchanged;
\* when the session is gone the region is removed all the same
C29_CloseRemovesThatBlockOnly ==
    [][last'.op = "on_close"
          => \E r \in DOMAIN editor_blocks :
                /\ editor_blocks' = Restrict(editor_blocks, DOMAIN editor_blocks \ {r})
                /\ blocks' = IF session
                             THEN Restrict(blocks, DOMAIN blocks \ {editor_blocks[r]})
                             ELSE blocks
                /\ kernel' = kernel /\ sent' = sent /\ queued' = queued]_vars

C29_Witness ==
    /\ session /\ last.op = "on_close" /\ last.evicted # {}
    /\ DOMAIN blocks # {} /\ last.evicted \cap DOMAIN blocks = {}
    /\ DOMAIN editor_blocks = {blocks[b].block_id : b \in DOMAIN blocks}

\* the other case of C29: the control is activated after the session is gone
C29_ClosedWithoutSession ==
    /\ ~session /\ last.op = "on_close" /\ last.result = "session_dropped"
    /\ DOMAIN blocks # {} /\ Cardinality(DOMAIN editor_blocks) < Cardinality(DOMAIN blocks)

SendingSteps == {"execute", "interrupt", "queued_send"}

\* C30: a try_send that fails in execute, interrupt or a queued send is swallowed:
\* the kernel handle is unchanged, the block of the execution stays in the
\* collection with the status it has, no error state is entered; and send passes
\* a message to the transport only when the handle is RunningKernel
C30_FailedSendIsSwallowed ==
    [][last'.op \in SendingSteps
          => /\ last'.try_send = "failed"
                   => /\ kernel' = kernel
                      /\ last'.op = "execute"
                            => /\ last'.id \in DOMAIN blocks'
                               /\ blocks'[last'.id].status = ExecutionStatusOf(kernel)
                      /\ last'.op # "execute" => blocks' = blocks
                      /\ \A b \in DOMAIN blocks \cap DOMAIN blocks' :
                            blocks'[b] = blocks[b]
             /\ sent' # sent => kernel.variant = "RunningKernel"
             /\ last'.try_send # "none" => sent' # sent]_vars

C30_Witness ==
    /\ last.op = "queued_send" /\ last.try_send = "failed"
    /\ kernel.variant = "RunningKernel" /\ kernel = last.pre
    /\ last.id \in DOMAIN blocks
    /\ blocks[last.id].status = ExecutionStatus("ConnectingToKernel")

\* C31: right after an execute that stored a block, the block's invalidation
\* anchor is valid in the document and lies on the row after the code range;
\* one line break was appended when the code range ended on the last row, and
\* the text was not modified otherwise
C31_InvalidationAnchorIsValid ==
    [][(last'.op = "execute" /\ last'.result = "ok")
          => /\ is_valid(blocks'[last'.id].invalidation_anchor, fragments')
             /\ RowOf(fragments', blocks'[last'.id].invalidation_anchor)
                   = RowOf(fragments', last'.range.end) + 1
             /\ fragments' = IF RowOf(fragments, last'.range.end) = MaxRow(fragments)
                             THEN Append(fragments, TRUE)
                             ELSE fragments]_vars

C31_Witness ==
    /\ last.op = "execute" /\ last.result = "ok" /\ last.id \in DOMAIN blocks
    /\ Len(fragments) = InitRows + 1
    /\ blocks[last.id].invalidation_anchor = Len(fragments)
    /\ is_valid(Len(fragments), fragments)
    /\ RowOf(fragments, last.range.end) + 1 = MaxRow(fragments)

C33_AtMostOneRequestPerCall ==
    /\ \A id \in DOMAIN requests : ExecuteRequests(id) <= 1
    /\ \A i \in DOMAIN sent :
          sent[i].kind = "ExecuteRequest"
              => /\ sent[i].msg_id \in DOMAIN requests
                 /\ sent[i].code = requests[sent[i].msg_id]
                 /\ sent[i].code # ""
    /\ Count(sent, LAMBDA m : m.kind = "ExecuteRequest") <= calls

C33_Witness ==
    /\ Len(sent) = 3
    /\ sent[1] = ExecuteRequest(1, 1, "1+1")
    /\ sent[2] = ShutdownRequest(1, TRUE)
    /\ sent[3] = ExecuteRequest(2, 2, "2*3")

\* C34: a request queued during StartingKernel is sent once startup has succeeded
\* only if its block is still in the session's collection; when the block was
\* evicted in the meantime (edit, overlapping execute, clear_outputs, close
\* control) the request is not sent
C34_EvictedRequestIsNotSent ==
    [][(last'.op = "queued_send" /\ last'.id \notin DOMAIN blocks) => sent' = sent]_vars

\* C35: the kernel handle becomes RunningKernel or ErroredLaunch only when the
\* startup task begun last resolves: a task superseded by restart() or shutdown()
\* changes nothing when it resolves, and at most one kernel start is in flight
C35_OnlyLatestStartupSetsKernel ==
    /\ [][(last'.op = "startup_resolve" /\ kernel' # kernel)
            => kernel = StartingKernel(last'.id) /\ last'.id = Len(tasks)]_vars
    /\ [](Cardinality({t \in DOMAIN tasks : tasks[t] = "pending"}) <= 1)

\* C36: the latest lifecycle request wins: after a restart() that follows a
\* shutdown(), the pending shutdown continuation does not set the handle to
\* Shutdown and does not discard the kernel that was started; the continuation
\* sets Shutdown only over a handle that shutdown() left
C36_RestartAfterShutdownWins ==
    [][(last'.op = "shutdown_done" /\ kernel' = Shutdown)
          => kernel.variant \in {"ShuttingDown", "Shutdown"}]_vars

\* C37: shutdown() called again while the handle is ShuttingDown leaves the handle
\* as it is until the pending continuation runs and emits no session-shutdown
\* event of its own, so that one shutdown sequence sets Shutdown and emits the
\* event exactly once
C37_ShutdownIsIdempotentWhileShuttingDown ==
    [][(last'.op = "shutdown" /\ kernel = ShuttingDown)
          => kernel' = ShuttingDown /\ last'.events = 0]_vars

\* C38: route adds no block and removes none, sends nothing on the transport and
\* leaves the variant of the kernel handle as it is, for every kind of message,
\* every correlation id and every kernel state, and it returns normally
C38_RouteKeepsBlocksTransportAndVariant ==
    [][last'.op = "route"
          => /\ DOMAIN blocks' = DOMAIN blocks
             /\ editor_blocks' = editor_blocks
             /\ sent' = sent /\ queued' = queued /\ tasks' = tasks
             /\ kernel'.variant = kernel.variant
             /\ last'.result \in {"ok", "no_parent"}]_vars

C38_Witness ==
    /\ last.op = "route" /\ last.arg = "DisplayData" /\ last.result = "ok"
    /\ last.id \in DOMAIN blocks /\ Cardinality(DOMAIN blocks) = 2
    /\ kernel.variant = "ErroredLaunch" /\ last.pre = kernel

\* ------------------------------------------------------------------------ C39
Selections(ed) == ed.disjoint \union ed.pending

\* the point lies in no selection, the ends of a selection counted to it
OutsideEverySelection(ed, point) ==
    \A r \in display_ranges(ed) : point < r.start \/ r.end < point

CursorAt(ed, point) ==
    /\ ed.disjoint = {}
    /\ ed.pending = {Selection(to_point(ed.fold, point), to_point(ed.fold, point))}

MenuAndSelectionsKept ==
    /\ menu_editor'.mouse_context_menu = menu_editor.mouse_context_menu
    /\ menu_editor'.disjoint = menu_editor.disjoint
    /\ menu_editor'.pending = menu_editor.pending

\* C39 as stated: deploy_context_menu on a full-mode editor with a project leaves a
\* mouse context menu present and the text unchanged; a click outside every selection
\* leaves a single empty cursor at the clicked point; an editor that is not in full
\* mode, or has neither a custom menu nor a project, keeps its menu and selections.
C39_FullModeProjectAlwaysGetsMenu ==
    [][last'.op = "deploy_context_menu"
          => /\ menu_editor'.text = menu_editor.text
             /\ (menu_editor.mode = "Full" /\ menu_editor.project)
                   => /\ menu_editor'.mouse_context_menu.some
                      /\ OutsideEverySelection(menu_editor, last'.id)
                            => CursorAt(menu_editor', last'.id)
             /\ (\/ menu_editor.mode # "Full"
                 \/ (menu_editor.custom_context_menu = "none" /\ ~menu_editor.project))
                   => MenuAndSelectionsKept]_vars

\* C39, amended: deploy_context_menu never changes the text.  On a full-mode editor
\* without a custom menu and with a project, a click in no selection's half-open
\* display range leaves a single empty cursor at the clicked point, any other click
\* keeps the selections, and the menu is present afterwards exactly when the call had
\* no pixel position or the editor has bounds and a pixel point for the source;
\* otherwise the editor is left without a menu.  A custom menu is deployed under the
\* same condition with the selections untouched, whether or not there is a project; a
\* custom builder that answers None, an editor that is not in full mode and an editor
\* with neither custom menu nor project keep their menu and selections.
C39_MenuNeedsPlaceAndNoCustomMenu ==
    [][last'.op = "deploy_context_menu"
          => LET placed == \/ last'.arg = "None"
                           \/ (menu_editor.last_bounds /\ menu_editor.on_screen)
                 clicked_selection ==
                     \E r \in display_ranges(menu_editor) :
                         r.start <= last'.id /\ last'.id < r.end
             IN  /\ menu_editor'.text = menu_editor.text
                 /\ (/\ menu_editor.mode = "Full"
                     /\ menu_editor.custom_context_menu = "none"
                     /\ menu_editor.project)
                       => /\ menu_editor'.mouse_context_menu.some = placed
                          /\ IF clicked_selection
                             THEN Selections(menu_editor') = Selections(menu_editor)
                             ELSE CursorAt(menu_editor', last'.id)
                 /\ (menu_editor.mode = "Full"
                        /\ menu_editor.custom_context_menu = "menu")
                       => /\ menu_editor'.mouse_context_menu.some = placed
                          /\ menu_editor'.disjoint = menu_editor.disjoint
                          /\ menu_editor'.pending = menu_editor.pending
                 /\ (\/ menu_editor.mode # "Full"
                     \/ menu_editor.custom_context_menu = "no_menu"
                     \/ (menu_editor.custom_context_menu = "none"
                            /\ ~menu_editor.project))
                       => MenuAndSelectionsKept]_vars

\* a click behind the fold, outside the two selections, on a laid-out full-mode editor
\* with a project: the menu is there and the cursor is at the clicked buffer point
C39_Witness ==
    /\ last.op = "deploy_context_menu" /\ last.result = "built"
    /\ last.arg = "Some" /\ last.id = 2
    /\ menu_editor.fold # NoFold
    /\ menu_editor.mouse_context_menu.some
    /\ menu_editor.mouse_context_menu.source = 4
    /\ menu_editor.disjoint = {}
    /\ menu_editor.pending = {Selection(4, 4)}
    /\ menu_editor.text = Text
    /\ menu_editor.focus = "menu"
====
